---- MODULE Spec2Model ----
(***************************************************************************)
(* Query classification and routing of the financial assistant             *)
(* (src/app_backend.py): TickerResolver (find_ticker_from_text), the       *)
(* intent classifier (analyze_query_with_gemini with its rule-based        *)
(* fallback _fallback_query_analysis), the router (process_query),         *)
(* scrape_url, the format_* functions, and the chat handler of the Smart   *)
(* Assistant tab (src/app.py) that calls process_query and renders its     *)
(* result.                                                                 *)
(*                                                                         *)
(* Python strings are modelled as sequences of one-character strings so    *)
(* that lower(), substring tests and the regular expressions are computed  *)
(* character by character.                                                 *)
(***************************************************************************)
EXTENDS Integers, Sequences, FiniteSets, TLC

VARIABLES
  api_key,       \* settings.api_key is non-empty (a credential is configured)
  query,         \* the query text passed to process_query / the resolver
  pc,            \* position of the running call
  reply,         \* result_text of the classifier's language-model call
  llm_path,      \* how the language-model path of the classifier went
  analysis,      \* the record analyze_query_with_gemini returned
  stock_data,    \* result["stock_data"]
  bitcoin_data,  \* result["bitcoin_data"]
  scraped_data,  \* result["scraped_data"]
  scraped_results, \* the local list the scraping loop appends to
  pending,       \* URLs the scraping loop has still to visit
  calls,         \* collaborator invocations so far, in order
  ticker_found,  \* value returned by find_ticker_from_text (resolver runs)
  chat_history,  \* st.session_state.chat_history of the Smart Assistant tab
  response,      \* the response text the chat handler rendered
  previous,      \* what an earlier call of process_query returned and was answered
  scrape_env     \* what a direct call of scrape_url meets (scrape_url runs)

vars == << api_key, query, pc, reply, llm_path, analysis, stock_data, bitcoin_data,
           scraped_data, scraped_results, pending, calls, ticker_found,
           chat_history, response, previous, scrape_env >>

----------------------------------------------------------------------------
(* Bounds of the model *)

\* fragments per query text in the resolver / fallback specification
MaxWords == 3
\* fragments per query text in the process_query specification
MaxQueryWords == 2
\* length of a URL list in a language-model response
MaxUrls == 2
\* tokens of a language-model response text
MaxRespTokens == 3

----------------------------------------------------------------------------
(* Characters and strings *)

LowerOf ==
  [A |-> "a", B |-> "b", C |-> "c", D |-> "d", E |-> "e", F |-> "f", G |-> "g", H |-> "h", I |-> "i", J |-> "j", K |-> "k", L |-> "l", M |-> "m", N |-> "n", O |-> "o", P |-> "p", Q |-> "q", R |-> "r", S |-> "s", T |-> "t", U |-> "u", V |-> "v", W |-> "w", X |-> "x", Y |-> "y", Z |-> "z"]

WordChars ==
  {"a", "b", "c", "d", "e", "f", "g", "h", "i", "j", "k", "l", "m", "n", "o", "p", "q", "r", "s", "t", "u", "v", "w", "x", "y", "z", "A", "B", "C", "D", "E", "F", "G", "H", "I", "J", "K", "L", "M", "N", "O", "P", "Q", "R", "S", "T", "U", "V", "W", "X", "Y", "Z", "0", "1", "2", "3", "4", "5", "6", "7", "8", "9", "_"}

\* str.lower()
Lower(s) == [i \in 1..Len(s) |-> IF s[i] \in DOMAIN LowerOf THEN LowerOf[s[i]] ELSE s[i]]

IsUpper(c) == c \in DOMAIN LowerOf

\* regex class \s
IsSpace(c) == c = " "

\* s is a prefix of t at position i
MatchAt(s, t, i) ==
  /\ i >= 1
  /\ i + Len(s) - 1 <= Len(t)
  /\ \A j \in 1..Len(s) : t[i + j - 1] = s[j]

\* Python's  s in t
Contains(s, t) == \E i \in 1..(Len(t) - Len(s) + 1) : MatchAt(s, t, i)

RECURSIVE Join(_)
\* " ".join(parts)
Join(parts) ==
  IF Len(parts) = 0 THEN << >>
  ELSE IF Len(parts) = 1 THEN parts[1]
  ELSE parts[1] \o << " " >> \o Join(Tail(parts))

----------------------------------------------------------------------------
(* TickerResolver *)

COMPANY_LOOKUP ==
  << <<<<"a", "p", "p", "l", "e">>, <<"A", "A", "P", "L">>>>,
     <<<<"m", "i", "c", "r", "o", "s", "o", "f", "t">>, <<"M", "S", "F", "T">>>>,
     <<<<"g", "o", "o", "g", "l", "e">>, <<"G", "O", "O", "G", "L">>>>,
     <<<<"a", "l", "p", "h", "a", "b", "e", "t">>, <<"G", "O", "O", "G", "L">>>>,
     <<<<"a", "m", "a", "z", "o", "n">>, <<"A", "M", "Z", "N">>>>,
     <<<<"t", "e", "s", "l", "a">>, <<"T", "S", "L", "A">>>>,
     <<<<"m", "e", "t", "a">>, <<"M", "E", "T", "A">>>>,
     <<<<"f", "a", "c", "e", "b", "o", "o", "k">>, <<"M", "E", "T", "A">>>>,
     <<<<"n", "e", "t", "f", "l", "i", "x">>, <<"N", "F", "L", "X">>>>,
     <<<<"n", "v", "i", "d", "i", "a">>, <<"N", "V", "D", "A">>>>,
     <<<<"a", "m", "d">>, <<"A", "M", "D">>>>,
     <<<<"i", "n", "t", "e", "l">>, <<"I", "N", "T", "C">>>>,
     <<<<"j", "p", "m", "o", "r", "g", "a", "n">>, <<"J", "P", "M">>>>,
     <<<<"b", "a", "n", "k", " ", "o", "f", " ", "a", "m", "e", "r", "i", "c", "a">>, <<"B", "A", "C">>>>,
     <<<<"w", "e", "l", "l", "s", " ", "f", "a", "r", "g", "o">>, <<"W", "F", "C">>>>,
     <<<<"g", "o", "l", "d", "m", "a", "n", " ", "s", "a", "c", "h", "s">>, <<"G", "S">>>>,
     <<<<"m", "o", "r", "g", "a", "n", " ", "s", "t", "a", "n", "l", "e", "y">>, <<"M", "S">>>>,
     <<<<"b", "e", "r", "k", "s", "h", "i", "r", "e", " ", "h", "a", "t", "h", "a", "w", "a", "y">>, <<"B", "R", "K", ".", "B">>>>,
     <<<<"j", "o", "h", "n", "s", "o", "n", " ", "&", " ", "j", "o", "h", "n", "s", "o", "n">>, <<"J", "N", "J">>>>,
     <<<<"p", "r", "o", "c", "t", "e", "r", " ", "&", " ", "g", "a", "m", "b", "l", "e">>, <<"P", "G">>>>,
     <<<<"c", "o", "c", "a", " ", "c", "o", "l", "a">>, <<"K", "O">>>>,
     <<<<"p", "e", "p", "s", "i">>, <<"P", "E", "P">>>>,
     <<<<"w", "a", "l", "m", "a", "r", "t">>, <<"W", "M", "T">>>>,
     <<<<"d", "i", "s", "n", "e", "y">>, <<"D", "I", "S">>>>,
     <<<<"n", "i", "k", "e">>, <<"N", "K", "E">>>>,
     <<<<"m", "c", "d", "o", "n", "a", "l", "d">>, <<"M", "C", "D">>>>,
     <<<<"m", "c", "d", "o", "n", "a", "l", "d", "s">>, <<"M", "C", "D">>>>,
     <<<<"v", "i", "s", "a">>, <<"V">>>>,
     <<<<"m", "a", "s", "t", "e", "r", "c", "a", "r", "d">>, <<"M", "A">>>>,
     <<<<"s", "a", "l", "e", "s", "f", "o", "r", "c", "e">>, <<"C", "R", "M">>>>,
     <<<<"o", "r", "a", "c", "l", "e">>, <<"O", "R", "C", "L">>>>,
     <<<<"c", "i", "s", "c", "o">>, <<"C", "S", "C", "O">>>>,
     <<<<"i", "b", "m">>, <<"I", "B", "M">>>>,
     <<<<"g", "e">>, <<"G", "E">>>>,
     <<<<"g", "e", "n", "e", "r", "a", "l", " ", "e", "l", "e", "c", "t", "r", "i", "c">>, <<"G", "E">>>>,
     <<<<"f", "o", "r", "d">>, <<"F">>>>,
     <<<<"g", "e", "n", "e", "r", "a", "l", " ", "m", "o", "t", "o", "r", "s">>, <<"G", "M">>>>,
     <<<<"g", "m">>, <<"G", "M">>>>,
     <<<<"b", "o", "e", "i", "n", "g">>, <<"B", "A">>>>,
     <<<<"c", "a", "t", "e", "r", "p", "i", "l", "l", "a", "r">>, <<"C", "A", "T">>>>,
     <<<<"h", "o", "m", "e", " ", "d", "e", "p", "o", "t">>, <<"H", "D">>>>,
     <<<<"l", "o", "w", "e", "s">>, <<"L", "O", "W">>>>,
     <<<<"t", "a", "r", "g", "e", "t">>, <<"T", "G", "T">>>>,
     <<<<"c", "o", "s", "t", "c", "o">>, <<"C", "O", "S", "T">>>>,
     <<<<"s", "t", "a", "r", "b", "u", "c", "k", "s">>, <<"S", "B", "U", "X">>>>,
     <<<<"u", "p", "s">>, <<"U", "P", "S">>>>,
     <<<<"f", "e", "d", "e", "x">>, <<"F", "D", "X">>>>,
     <<<<"e", "x", "x", "o", "n">>, <<"X", "O", "M">>>>,
     <<<<"c", "h", "e", "v", "r", "o", "n">>, <<"C", "V", "X">>>>,
     <<<<"p", "f", "i", "z", "e", "r">>, <<"P", "F", "E">>>>,
     <<<<"m", "o", "d", "e", "r", "n", "a">>, <<"M", "R", "N", "A">>>>,
     <<<<"a", "b", "b", "v", "i", "e">>, <<"A", "B", "B", "V">>>>,
     <<<<"z", "o", "o", "m">>, <<"Z", "M">>>>,
     <<<<"s", "p", "o", "t", "i", "f", "y">>, <<"S", "P", "O", "T">>>>,
     <<<<"u", "b", "e", "r">>, <<"U", "B", "E", "R">>>>,
     <<<<"l", "y", "f", "t">>, <<"L", "Y", "F", "T">>>>,
     <<<<"a", "i", "r", "b", "n", "b">>, <<"A", "B", "N", "B">>>>,
     <<<<"s", "n", "a", "p", "c", "h", "a", "t">>, <<"S", "N", "A", "P">>>>,
     <<<<"p", "a", "y", "p", "a", "l">>, <<"P", "Y", "P", "L">>>>,
     <<<<"s", "q", "u", "a", "r", "e">>, <<"S", "Q">>>>,
     <<<<"r", "o", "b", "i", "n", "h", "o", "o", "d">>, <<"H", "O", "O", "D">>>> >>

\* sorted(keys, key=len, reverse=True): stable, so keys of equal length
\* keep their table order
RECURSIVE SortByLenDesc(_)
SortByLenDesc(entries) ==
  IF Len(entries) = 0 THEN << >>
  ELSE LET best == CHOOSE i \in 1..Len(entries) :
                     /\ \A j \in 1..Len(entries) : Len(entries[j][1]) <= Len(entries[i][1])
                     /\ \A j \in 1..(i - 1) : Len(entries[j][1]) < Len(entries[i][1])
           rest == [k \in 1..(Len(entries) - 1) |->
                      IF k < best THEN entries[k] ELSE entries[k + 1]]
       IN << entries[best] >> \o SortByLenDesc(rest)

\* mutation: the table is scanned in table order (no longest-first sort)
SortedLookupUnsorted == COMPANY_LOOKUP

SortedLookup == SortByLenDesc(COMPANY_LOOKUP)

common_words ==
  { <<"I">>,
    <<"I", "S">>,
    <<"I", "T">>,
    <<"I", "N">>,
    <<"O", "N">>,
    <<"T", "O">>,
    <<"O", "F">>,
    <<"T", "H", "E">>,
    <<"A", "N", "D">>,
    <<"O", "R">>,
    <<"B", "U", "T">>,
    <<"G", "E", "T">>,
    <<"C", "A", "N">>,
    <<"H", "O", "W">>,
    <<"Y", "O", "U">>,
    <<"Y", "O", "U", "R">> }

\* regex \b at position p (between characters p-1 and p)
Boundary(t, p) ==
  LET before == p > 1 /\ t[p - 1] \in WordChars
      after  == p <= Len(t) /\ t[p] \in WordChars
  IN before # after

\* length of the match of \b[A-Z]{2,5}\b starting at position i, 0 if none
TickerMatchLen(t, i) ==
  LET ok(k) == /\ i + k - 1 <= Len(t)
               /\ \A j \in 0..(k - 1) : IsUpper(t[i + j])
               /\ Boundary(t, i + k)
      ks == {k \in 2..5 : ok(k)}
  IN IF Boundary(t, i) /\ ks # {} THEN CHOOSE k \in ks : \A m \in ks : m <= k ELSE 0

RECURSIVE FindTickerTokens(_, _)
\* re.findall(r'\b[A-Z]{2,5}\b', text), scanning from position i
FindTickerTokens(t, i) ==
  IF i > Len(t) THEN << >>
  ELSE LET n == TickerMatchLen(t, i)
       IN IF n > 0 THEN << SubSeq(t, i, i + n - 1) >> \o FindTickerTokens(t, i + n)
          ELSE FindTickerTokens(t, i + 1)

NoTicker == << >>

\* mutation: ticker-shaped tokens are tried before the company names
find_ticker_pattern_first(text) ==
  LET text_lower == Lower(text)
      hits == {i \in 1..Len(SortedLookup) : Contains(SortedLookup[i][1], text_lower)}
      matches == FindTickerTokens(text, 1)
      valid_tickers == SelectSeq(matches, LAMBDA m : m \notin common_words)
  IN IF Len(valid_tickers) > 0 THEN valid_tickers[1]
     ELSE IF hits # {}
     THEN SortedLookup[CHOOSE i \in hits : \A j \in hits : i <= j][2]
     ELSE NoTicker

\* find_ticker_from_text: the ticker, or NoTicker for None
find_ticker_from_text(text) ==
  LET text_lower == Lower(text)
      hits == {i \in 1..Len(SortedLookup) : Contains(SortedLookup[i][1], text_lower)}
      matches == FindTickerTokens(text, 1)
      valid_tickers == SelectSeq(matches, LAMBDA m : m \notin common_words)
  IN IF hits # {}
     THEN SortedLookup[CHOOSE i \in hits : \A j \in hits : i <= j][2]
     ELSE IF Len(valid_tickers) > 0 THEN valid_tickers[1] ELSE NoTicker

----------------------------------------------------------------------------
(* Query texts *)

Fragments ==
  { <<"a", "p", "p", "l", "e">>,
    <<"b", "a", "n", "k", " ", "o", "f", " ", "a", "m", "e", "r", "i", "c", "a">>,
    <<"f", "o", "r", "d">>,
    <<"b", "i", "t", "c", "o", "i", "n">>,
    <<"b", "t", "c">>,
    <<"G", "E", "T">>,
    <<"T", "H", "E">>,
    <<"M", "S", "F", "T">>,
    <<"h", "t", "t", "p", "s", ":", "/", "/", "x", ".", "c", "o", "m">>,
    <<"h", "t", "t", "p", ":", "/", "/", "y", ".", "i", "o">> }

RECURSIVE SeqsUpTo(_, _)
\* the sequences over S of length 0..n
SeqsUpTo(S, n) ==
  IF n = 0 THEN { << >> }
  ELSE LET shorter == SeqsUpTo(S, n - 1)
       IN shorter \cup {Append(s, x) : s \in {t \in shorter : Len(t) = n - 1}, x \in S}

\* the fragments the queries given to process_query are made of
QueryFragments ==
  { F \in Fragments : F \in { << "a", "p", "p", "l", "e" >>,
                              << "b", "i", "t", "c", "o", "i", "n" >>,
                              << "b", "t", "c" >>,
                              << "h", "t", "t", "p", "s", ":", "/", "/", "x", ".", "c", "o", "m" >> } }

\* the texts made of 1..n fragments of S, joined by single spaces
Texts(S, n) == {Join(ws) : ws \in SeqsUpTo(S, n) \ { << >> }}

----------------------------------------------------------------------------
(* Python / JSON values.  Every value has the same shape so that values of
   different Python types can be compared: t is the type, s the characters
   of a str (or the digits of a number), l the items of a list. *)

None == [t |-> "none", s |-> << >>, l |-> << >>]

\* the key is not in the dict
Absent == [t |-> "absent", s |-> << >>, l |-> << >>]

Str(chars) == [t |-> "str", s |-> chars, l |-> << >>]

List(items) == [t |-> "list", s |-> << >>, l |-> items]

Num(digits) == [t |-> "num", s |-> digits, l |-> << >>]

\* Python truthiness (bool(v))
Truthy(v) ==
  CASE v.t = "str"  -> v.s # << >>
    [] v.t = "list" -> v.l # << >>
    [] v.t = "num"  -> v.s # << "0" >>
    [] OTHER        -> FALSE

\* dict.get(key) and dict.get(key, default) on a field of a parsed object
Get(v) == IF v.t = "absent" THEN None ELSE v

GetDefault(v, default) == IF v.t = "absent" THEN default ELSE v

\* a dict with the five keys of the classifier's schema; kind is the JSON
\* type of the whole value ("dict" for an object)
Dict(intent, ticker, company_name, urls, search_query) ==
  [kind |-> "dict", intent |-> intent, ticker |-> ticker,
   company_name |-> company_name, urls |-> urls, search_query |-> search_query]

\* a JSON value that is not an object (list, string, number, null)
NonDict(kind) ==
  [kind |-> kind, intent |-> Absent, ticker |-> Absent,
   company_name |-> Absent, urls |-> Absent, search_query |-> Absent]

NoAnalysis == NonDict("unset")

----------------------------------------------------------------------------
(* IntentClassifier: the deterministic fallback *)

\* length of the match of https?://[^\s]+ starting at position i, 0 if none
UrlMatchLen(t, i) ==
  LET http  == << "h", "t", "t", "p" >>
      sep   == << ":", "/", "/" >>
      s     == IF MatchAt(http, t, i) /\ i + 4 <= Len(t) /\ t[i + 4] = "s" THEN 1 ELSE 0
      \* the optional "s" is greedy; without it the scheme must continue with ://
      head  == IF MatchAt(http, t, i) /\ MatchAt(sep, t, i + 4 + s) THEN 4 + s + 3
               ELSE IF MatchAt(http, t, i) /\ MatchAt(sep, t, i + 4) THEN 7
               ELSE 0
      stop  == {j \in (i + head)..Len(t) : IsSpace(t[j])}
      last  == IF stop = {} THEN Len(t) ELSE (CHOOSE j \in stop : \A k \in stop : j <= k) - 1
  IN IF head > 0 /\ last >= i + head THEN last - i + 1 ELSE 0

RECURSIVE FindUrls(_, _)
\* re.findall(r'https?://[^\s]+', query), scanning from position i
FindUrls(t, i) ==
  IF i > Len(t) THEN << >>
  ELSE LET n == UrlMatchLen(t, i)
       IN IF n > 0 THEN << SubSeq(t, i, i + n - 1) >> \o FindUrls(t, i + n)
          ELSE FindUrls(t, i + 1)

CryptoKeywords == << <<"b", "i", "t", "c", "o", "i", "n">>, <<"b", "t", "c">>, <<"c", "r", "y", "p", "t", "o">> >>

Bitcoin == << "B", "i", "t", "c", "o", "i", "n" >>

\* any(kw in query_lower for kw in ['bitcoin', 'btc', 'crypto'])
HasCryptoKeyword(q) ==
  \E k \in 1..Len(CryptoKeywords) : Contains(CryptoKeywords[k], Lower(q))

\* mutation: URLs are looked at first, so a query with a URL is never combined
_fallback_urls_first(q) ==
  LET urls == FindUrls(q, 1)
      ticker == find_ticker_from_text(q)
  IN IF urls # << >>
     THEN Dict(Str(<< "web_scrape" >>), None, None, List(urls), Str(q))
     ELSE IF HasCryptoKeyword(q)
     THEN Dict(Str(<< "bitcoin_price" >>), None, Str(Bitcoin), List(<< >>), None)
     ELSE IF ticker # NoTicker
     THEN Dict(Str(<< "stock_price" >>), Str(ticker), None, List(<< >>), None)
     ELSE Dict(Str(<< "unknown" >>), None, None, List(<< >>), Str(q))

\* _fallback_query_analysis
_fallback_query_analysis(q) ==
  LET urls == FindUrls(q, 1)
      ticker == find_ticker_from_text(q)
  IN IF HasCryptoKeyword(q)
     THEN IF urls # << >>
          THEN Dict(Str(<< "both" >>), None, Str(Bitcoin), List(urls), Str(q))
          ELSE Dict(Str(<< "bitcoin_price" >>), None, Str(Bitcoin), List(<< >>), None)
     ELSE IF ticker # NoTicker
     THEN IF urls # << >>
          THEN Dict(Str(<< "both" >>), Str(ticker), None, List(urls), Str(q))
          ELSE Dict(Str(<< "stock_price" >>), Str(ticker), None, List(<< >>), None)
     ELSE IF urls # << >>
     THEN Dict(Str(<< "web_scrape" >>), None, None, List(urls), Str(q))
     ELSE Dict(Str(<< "unknown" >>), None, None, List(<< >>), Str(q))

----------------------------------------------------------------------------
(* IntentClassifier: the language-model path *)

\* A response text is a sequence of tokens: a labelled fence (```json), a
\* plain fence (```), prose that is no JSON, or the text of one JSON value.
RespTokens == {"fence_json", "fence", "prose", "value"}

RespTexts == SeqsUpTo(RespTokens, MaxRespTokens)

\* positions of the tokens of r that contain ``` (both kinds of fence)
FencePositions(r) == {i \in 1..Len(r) : r[i] \in {"fence_json", "fence"}}

\* the part of r from position from up to the next token in stops (or the end)
UpTo(r, from, stops) ==
  LET later == {i \in stops : i >= from}
      to == IF later = {} THEN Len(r) ELSE (CHOOSE i \in later : \A j \in later : i <= j) - 1
  IN SubSeq(r, from, to)

\* lines 361-364: the text between the fences
StripFence(r) ==
  LET labelled == {i \in 1..Len(r) : r[i] = "fence_json"}
      plain == FencePositions(r)
      First(S) == CHOOSE i \in S : \A j \in S : i <= j
  IN IF labelled # {}
     \* result_text.split("```json")[1].split("```")[0]
     THEN UpTo(r, First(labelled) + 1, plain)
     ELSE IF plain # {}
     \* result_text.split("```")[1].split("```")[0]
     THEN UpTo(r, First(plain) + 1, plain)
     ELSE r

\* json.loads succeeds exactly on the text of a single JSON value
JsonLoadsOk(text) == text = << "value" >>

IntentTags ==
  { << "stock_price" >>, << "bitcoin_price" >>, << "web_scrape" >>, << "both" >>,
    << "unknown" >> }

\* URLs and strings a language-model response may carry
LLMUrls == { << "h", "t", "t", "p", ":", "/", "/", "a" >>,
             << "h", "t", "t", "p", ":", "/", "/", "b" >> }

LLMTicker == << "T", "S", "L", "A" >>

LLMPhrase == << "n", "e", "w", "s" >>

\* the JSON values a response may parse to: objects with any of the schema's
\* fields missing, null or of another type, and values that are no object
JsonValues ==
  { Dict(intent, ticker, None, urls, search_query) :
      intent \in {Str(i) : i \in IntentTags} \cup {Str(<< "bogus" >>), None},
      ticker \in {None, Str(<< >>), Str(LLMTicker)},
      urls \in {Absent, None, Num(<< "5" >>), Str(<< "a" >>)}
                 \cup {List(l) : l \in SeqsUpTo(LLMUrls, MaxUrls)},
      search_query \in {Absent, None, Str(LLMPhrase)} }
  \cup {NonDict(k) : k \in {"list", "str", "num", "none"}}

\* the outcome of lines 357-364: the call raised, or result_text holds the
\* stripped response
Raised == [raises |-> TRUE, text |-> << >>]

ResultText(text) == [raises |-> FALSE, text |-> text]

\* no call was made
NoReply == ResultText(<< >>)

\* which way a call of analyze_query_with_gemini went
LLMPath(key, r) ==
  IF ~key THEN "no_key"
  ELSE IF r.raises THEN "raised"
  ELSE IF ~JsonLoadsOk(r.text) THEN "unparseable"
  ELSE "parsed"

\* mutation: a failure of the language-model path yields Unknown instead of
\* the rule-based result
analyze_query_swallow(q, key, r, value) ==
  IF key /\ ~r.raises /\ JsonLoadsOk(r.text)
  THEN value
  ELSE Dict(Str(<< "unknown" >>), None, None, List(<< >>), Str(q))

\* analyze_query_with_gemini: r is the outcome of the language-model call,
\* value the JSON value that json.loads reads from result_text
analyze_query_with_gemini(q, key, r, value) ==
  IF ~key THEN _fallback_query_analysis(q)
  ELSE IF r.raises THEN _fallback_query_analysis(q)
  ELSE IF ~JsonLoadsOk(r.text) THEN _fallback_query_analysis(q)
  ELSE value

----------------------------------------------------------------------------
(* Collaborators *)

\* what a quote or crypto fetch returns: a payload, or {"error": ...}; both
\* functions catch every exception (lines 169-171, 202-204)
FetchOutcomes == {"ok", "error"}

\* what one call of scrape_url meets: the page fetch, and the language model
ScrapeEnvs ==
  [fetch : {"fails", "empty", "content"},
   model : {"raises", "not_json", "not_object", "no_relevant", "relevant_false",
            "relevant_true"}]

ScrapeResult(kind, reason, url) == [kind |-> kind, reason |-> reason, url |-> url]

\* scrape_url; phrase is the search phrase passed as query. The extracted
\* text is not tested for emptiness (lines 235-246): an empty page goes to the
\* language model like any other. analysis.get("relevant", False) (line 289)
\* reads a missing 'relevant' as False, and raises on a value that is no dict
scrape_url(url, phrase, key, env) ==
  IF ~key THEN ScrapeResult("error", "api_key_not_configured", Absent)
  ELSE IF env.fetch = "fails" THEN ScrapeResult("error", "failed_to_fetch", Str(url))
  ELSE IF env.model \in {"raises", "not_json", "not_object"}
  THEN ScrapeResult("error", "exception", Str(url))
  ELSE IF env.model \in {"no_relevant", "relevant_false"}
  THEN ScrapeResult("not_relevant", "", Str(url))
  ELSE ScrapeResult("relevant", "", Str(url))

----------------------------------------------------------------------------
(* ResponseFormatter: the format_* functions and the response assembly of  *)
(* the Smart Assistant tab (src/app.py)                                    *)

\* one line of rendered text: which formatter wrote it, what it shows and the
\* URL it names. A text is a sequence of lines; the empty string is << >>
Line(tag, kind, url) == [tag |-> tag, kind |-> kind, url |-> url]

\* the separator "\n\n---\n\n" the parts are joined with
Separator == Line("separator", "", Absent)

\* format_stock_response
format_stock_response(data) ==
  IF data = "error"
  THEN << Line("stock", "error", Absent) >>
  ELSE << Line("stock", "quote", Absent) >>

\* format_bitcoin_response
format_bitcoin_response(data) ==
  IF data = "error"
  THEN << Line("bitcoin", "error", Absent) >>
  ELSE << Line("bitcoin", "quote", Absent) >>

\* format_scraped_response; data.get('url', 'URL') names the literal 'URL'
\* when the entry has no url
format_scraped_response(data) ==
  IF data.kind = "error"
  THEN << Line("scraped", "error",
               IF data.url = Absent THEN Str(<< "U", "R", "L" >>) ELSE data.url) >>
  ELSE IF data.kind = "not_relevant"
  THEN << Line("scraped", "info", Absent) >>
  ELSE << Line("scraped", "found", data.url) >>

\* the four parts appended for intent 'unknown' (lines 267-271)
GuidanceParts ==
  << << Line("guidance", "not_sure", Absent) >>,
     << Line("guidance", "stock_example", Absent) >>,
     << Line("guidance", "bitcoin_example", Absent) >>,
     << Line("guidance", "scrape_example", Absent) >> >>

\* "I couldn't find any relevant information."
NothingFound == << Line("fallback", "nothing_found", Absent) >>

\* separator.join(parts)
RECURSIVE JoinParts(_)
JoinParts(parts) ==
  IF parts = << >> THEN << >>
  ELSE IF Len(parts) = 1 THEN parts[1]
  ELSE parts[1] \o << Separator >> \o JoinParts(Tail(parts))

\* [format_scraped_response(scraped) for scraped in items]
ScrapedParts(items) == [i \in 1..Len(items) |-> format_scraped_response(items[i])]

\* mutation: entries of the scrape list that hold an error are left out
response_parts_skip_errors(a, stock, bitcoin, scraped) ==
  (IF GetDefault(a.intent, Str(<< "unknown" >>)) = Str(<< "unknown" >>)
   THEN GuidanceParts ELSE << >>)
  \o (IF stock # "none" THEN << format_stock_response(stock) >> ELSE << >>)
  \o (IF bitcoin # "none" THEN << format_bitcoin_response(bitcoin) >> ELSE << >>)
  \o (IF scraped.present /\ scraped.items # << >>
      THEN ScrapedParts(SelectSeq(scraped.items, LAMBDA r : r.kind # "error"))
      ELSE << >>)

\* response_parts as lines 262-284 build it from the result of process_query:
\* a is result['analysis'], the others the three slots
response_parts(a, stock, bitcoin, scraped) ==
  (IF GetDefault(a.intent, Str(<< "unknown" >>)) = Str(<< "unknown" >>)
   THEN GuidanceParts ELSE << >>)
  \o (IF stock # "none" THEN << format_stock_response(stock) >> ELSE << >>)
  \o (IF bitcoin # "none" THEN << format_bitcoin_response(bitcoin) >> ELSE << >>)
  \o (IF scraped.present /\ scraped.items # << >>
      THEN ScrapedParts(scraped.items)
      ELSE << >>)

\* line 286
RenderResponse(a, stock, bitcoin, scraped) ==
  LET parts == response_parts(a, stock, bitcoin, scraped)
  IN IF parts # << >> THEN JoinParts(parts) ELSE NothingFound

\* an entry of the chat transcript; the content of a user entry is the text
\* typed, that of an assistant entry the rendered lines
Entry(role, text, lines) == [role |-> role, text |-> text, lines |-> lines]

\* nothing has been rendered yet
NoResponse == << >>

----------------------------------------------------------------------------
(* QueryRouter: process_query *)

\* result["scraped_data"] is None
NoScrape == [present |-> FALSE, items |-> << >>]

Call(fn, url, arg) == [fn |-> fn, url |-> url, arg |-> arg]

\* the calls of collaborator fn made so far
CallsOf(fn) == SelectSeq(calls, LAMBDA c : c.fn = fn)

\* the items a for loop over v visits (a str is iterated character by
\* character); only lists and strs are iterable
Iterable(v) == v.t \in {"list", "str"}

Items(v) == IF v.t = "list" THEN v.l ELSE [i \in 1..Len(v.s) |-> << v.s[i] >>]

\* analysis.get("search_query", query)
SearchPhrase == GetDefault(analysis.search_query, Str(query))

\* no earlier call of process_query
NoPrevious ==
  [present |-> FALSE, analysis |-> NoAnalysis, llm_path |-> "unset",
   stock_data |-> "none", bitcoin_data |-> "none", scraped_data |-> NoScrape]

\* no direct call of scrape_url
NoEnv == [fetch |-> "unset", model |-> "unset"]

\* Collaborators answer a repeated call of process_query as they answered the
\* call before (previous.present); a first call may be answered in any way.

\* what the language-model call of the classifier may come to
Replies ==
  LET all == {Raised} \cup {ResultText(StripFence(r)) : r \in RespTexts}
  IN IF previous.present
     THEN {r \in all : LLMPath(TRUE, r) = previous.llm_path}
     ELSE all

\* the JSON values json.loads may read from a parseable response
Values == IF previous.present THEN {previous.analysis} ELSE JsonValues

\* what a price fetch may return, given what it returned before
Answers(before) ==
  IF previous.present /\ before # "none" THEN {before} ELSE FetchOutcomes

\* what the k-th call of scrape_url may meet
Envs(k, url, phrase, key) ==
  IF previous.present /\ k <= Len(previous.scraped_data.items)
  THEN {e \in ScrapeEnvs : scrape_url(url, phrase, key, e) = previous.scraped_data.items[k]}
  ELSE ScrapeEnvs

\* nothing has been classified, fetched or scraped yet
Idle ==
  /\ llm_path = "unset"
  /\ stock_data = "none"
  /\ bitcoin_data = "none"
  /\ scraped_data = NoScrape
  /\ scraped_results = << >>
  /\ pending = << >>
  /\ calls = << >>

Init ==
  /\ query \in Texts(QueryFragments, MaxQueryWords)
  /\ api_key \in BOOLEAN
  /\ pc = "input"
  /\ analysis = NoAnalysis
  /\ ticker_found = NoTicker
  /\ reply = NoReply
  /\ chat_history = << >>
  /\ response = NoResponse
  /\ previous = NoPrevious
  /\ scrape_env = NoEnv
  /\ Idle

\* src/app.py lines 247-260: the user's text arrives; it is appended to the
\* transcript and process_query is called with it
Submit ==
  /\ pc = "input"
  /\ chat_history' = Append(chat_history, Entry("user", query, << >>))
  /\ pc' = "start"
  /\ UNCHANGED << api_key, query, reply, llm_path, analysis, stock_data, bitcoin_data,
                  scraped_data, scraped_results, pending, calls, ticker_found, response,
                  previous, scrape_env >>

\* lines 322-364: with a credential, the language model is asked and the
\* fences are stripped from its response
AskModel ==
  /\ pc = "start"
  /\ api_key
  /\ reply' \in Replies
  /\ pc' = "parse"
  /\ UNCHANGED << api_key, query, chat_history, response, previous, scrape_env,
                  llm_path, analysis, stock_data, bitcoin_data, scraped_data,
                  scraped_results, pending, calls, ticker_found >>

\* lines 317-320 and 366-374, then 408-416: the classifier returns and
\* process_query builds its result record
Analyze ==
  /\ \/ pc = "start" /\ ~api_key
     \/ pc = "parse"
  /\ \E value \in IF LLMPath(api_key, reply) = "parsed" THEN Values ELSE {NoAnalysis} :
       analysis' = analyze_query_with_gemini(query, api_key, reply, value)
  /\ llm_path' = LLMPath(api_key, reply)
  /\ reply' = NoReply
  /\ stock_data' = "none"
  /\ bitcoin_data' = "none"
  /\ scraped_data' = NoScrape
  /\ pc' = "route"
  /\ UNCHANGED << api_key, query, chat_history, response, previous, scrape_env,
                  scraped_results, pending, calls, ticker_found >>

\* line 418: analysis.get on a value that is no dict raises AttributeError
RouteRaise ==
  /\ pc = "route"
  /\ analysis.kind # "dict"
  /\ pc' = "raised"
  /\ UNCHANGED << api_key, query, chat_history, response, previous, scrape_env, reply,
                  llm_path, analysis, stock_data, bitcoin_data, scraped_data,
                  scraped_results, pending, calls, ticker_found >>

Intent == Get(analysis.intent)

\* lines 421-424
RouteStock ==
  /\ pc = "route"
  /\ analysis.kind = "dict"
  /\ Intent = Str(<< "stock_price" >>)
  /\ LET ticker == Get(analysis.ticker)
     IN IF Truthy(ticker)
        THEN /\ stock_data' \in Answers(previous.stock_data)
             /\ calls' = Append(calls, Call("fetch_stock_price", << >>, ticker))
        ELSE UNCHANGED << stock_data, calls >>
  /\ pc' = "done"
  /\ UNCHANGED << api_key, query, chat_history, response, previous, scrape_env, reply,
                  llm_path, analysis, bitcoin_data, scraped_data, scraped_results,
                  pending, ticker_found >>

\* lines 426-427
RouteBitcoin ==
  /\ pc = "route"
  /\ analysis.kind = "dict"
  /\ Intent = Str(<< "bitcoin_price" >>)
  /\ bitcoin_data' \in Answers(previous.bitcoin_data)
  /\ calls' = Append(calls, Call("fetch_bitcoin_price", << >>, None))
  /\ pc' = "done"
  /\ UNCHANGED << api_key, query, chat_history, response, previous, scrape_env, reply,
                  llm_path, analysis, stock_data, scraped_data, scraped_results,
                  pending, ticker_found >>

\* mutation: the list of the scraping loop is not created anew (line 433)
EnterScrapeKeepsList ==
  LET urls == GetDefault(analysis.urls, List(<< >>))
  IN IF ~Truthy(urls) THEN pc' = "done" /\ UNCHANGED << pending, scraped_results >>
     ELSE IF ~Iterable(urls) THEN pc' = "raised" /\ UNCHANGED << pending, scraped_results >>
     ELSE /\ pc' = "scrape"
          /\ pending' = Items(urls)
          /\ scraped_results' = scraped_results

\* lines 430-433 and 447-450: enter the scraping loop, skip it, or raise
\* TypeError on a truthy value that cannot be iterated
EnterScrape ==
  LET urls == GetDefault(analysis.urls, List(<< >>))
  IN IF ~Truthy(urls) THEN pc' = "done" /\ UNCHANGED << pending, scraped_results >>
     ELSE IF ~Iterable(urls) THEN pc' = "raised" /\ UNCHANGED << pending, scraped_results >>
     ELSE /\ pc' = "scrape"
          /\ pending' = Items(urls)
          /\ scraped_results' = << >>

\* lines 429-433
RouteWebScrape ==
  /\ pc = "route"
  /\ analysis.kind = "dict"
  /\ Intent = Str(<< "web_scrape" >>)
  /\ EnterScrape
  /\ UNCHANGED << api_key, query, chat_history, response, previous, scrape_env, reply,
                  llm_path, analysis, stock_data, bitcoin_data, scraped_data, calls,
                  ticker_found >>

\* line 443: "bitcoin" in query.lower()
MentionsBitcoin(q) == Contains(CryptoKeywords[1], Lower(q))

\* mutation: the crypto fetch is tested with if instead of elif
RouteBothFetchesBoth ==
  /\ pc = "route"
  /\ analysis.kind = "dict"
  /\ Intent = Str(<< "both" >>)
  /\ LET ticker == Get(analysis.ticker)
         stock == IF Truthy(ticker)
                  THEN << Call("fetch_stock_price", << >>, ticker) >> ELSE << >>
         crypto == IF MentionsBitcoin(query)
                   THEN << Call("fetch_bitcoin_price", << >>, None) >> ELSE << >>
     IN /\ IF Truthy(ticker) THEN stock_data' \in Answers(previous.stock_data) ELSE UNCHANGED stock_data
        /\ IF MentionsBitcoin(query) THEN bitcoin_data' \in Answers(previous.bitcoin_data)
           ELSE UNCHANGED bitcoin_data
        /\ calls' = calls \o stock \o crypto
  /\ EnterScrape
  /\ UNCHANGED << api_key, query, chat_history, response, previous, scrape_env, reply,
                  llm_path, analysis, scraped_data, ticker_found >>

\* lines 438-450
RouteBoth ==
  /\ pc = "route"
  /\ analysis.kind = "dict"
  /\ Intent = Str(<< "both" >>)
  /\ LET ticker == Get(analysis.ticker)
     IN IF Truthy(ticker)
        THEN /\ stock_data' \in Answers(previous.stock_data)
             /\ calls' = Append(calls, Call("fetch_stock_price", << >>, ticker))
             /\ UNCHANGED bitcoin_data
        ELSE IF MentionsBitcoin(query)
        THEN /\ bitcoin_data' \in Answers(previous.bitcoin_data)
             /\ calls' = Append(calls, Call("fetch_bitcoin_price", << >>, None))
             /\ UNCHANGED stock_data
        ELSE UNCHANGED << stock_data, bitcoin_data, calls >>
  /\ EnterScrape
  /\ UNCHANGED << api_key, query, chat_history, response, previous, scrape_env, reply,
                  llm_path, analysis, scraped_data, ticker_found >>

\* no branch of the if/elif chain matches (unknown, or any other value)
RouteOther ==
  /\ pc = "route"
  /\ analysis.kind = "dict"
  /\ Intent \notin {Str(i) : i \in IntentTags \ { << "unknown" >> }}
  /\ pc' = "done"
  /\ UNCHANGED << api_key, query, chat_history, response, previous, scrape_env, reply,
                  llm_path, analysis, stock_data, bitcoin_data, scraped_data,
                  scraped_results, pending, calls, ticker_found >>

\* mutation: the loop stops at the first URL whose scrape fails
ScrapeNextShortCircuit ==
  /\ pc = "scrape"
  /\ pending # << >>
  /\ \E env \in Envs(Len(CallsOf("scrape_url")) + 1, Head(pending), SearchPhrase, api_key) :
       LET r == scrape_url(Head(pending), SearchPhrase, api_key, env)
           results == Append(scraped_results, r)
       IN /\ scraped_results' = results
          /\ IF Tail(pending) = << >> \/ r.kind = "error"
             THEN /\ scraped_data' = [present |-> TRUE, items |-> results]
                  /\ pc' = "done"
             ELSE UNCHANGED << scraped_data, pc >>
  /\ calls' = Append(calls, Call("scrape_url", Head(pending), SearchPhrase))
  /\ pending' = Tail(pending)
  /\ UNCHANGED << api_key, query, chat_history, response, previous, scrape_env, reply,
                  llm_path, analysis, stock_data, bitcoin_data, ticker_found >>

\* lines 434-436, 451-453: one iteration of the scraping loop; after the
\* last one the list is stored in the result (line 455 returns it)
ScrapeNext ==
  /\ pc = "scrape"
  /\ pending # << >>
  /\ \E env \in Envs(Len(CallsOf("scrape_url")) + 1, Head(pending), SearchPhrase, api_key) :
       LET results == Append(scraped_results,
                             scrape_url(Head(pending), SearchPhrase, api_key, env))
       IN /\ scraped_results' = results
          /\ IF Tail(pending) = << >>
             THEN /\ scraped_data' = [present |-> TRUE, items |-> results]
                  /\ pc' = "done"
             ELSE UNCHANGED << scraped_data, pc >>
  /\ calls' = Append(calls, Call("scrape_url", Head(pending), SearchPhrase))
  /\ pending' = Tail(pending)
  /\ UNCHANGED << api_key, query, chat_history, response, previous, scrape_env, reply,
                  llm_path, analysis, stock_data, bitcoin_data, ticker_found >>

\* src/app.py lines 262-291: process_query has returned; the response is
\* assembled, shown and appended to the transcript
Render ==
  /\ pc = "done"
  /\ response' = RenderResponse(analysis, stock_data, bitcoin_data, scraped_data)
  /\ chat_history' = Append(chat_history, Entry("assistant", << >>, response'))
  /\ pc' = "rendered"
  /\ UNCHANGED << api_key, query, reply, llm_path, analysis, stock_data, bitcoin_data,
                  scraped_data, scraped_results, pending, calls, ticker_found, previous,
                  scrape_env >>

Next ==
  \/ Submit
  \/ AskModel
  \/ Analyze
  \/ RouteRaise
  \/ RouteStock
  \/ RouteBitcoin
  \/ RouteWebScrape
  \/ RouteBoth
  \/ RouteOther
  \/ ScrapeNext
  \/ Render

Spec == Init /\ [][Next]_vars

----------------------------------------------------------------------------
(* process_query called twice on the same assistant *)

\* the first call is one of a single-fragment query
InitTwice ==
  /\ Init
  /\ query \in QueryFragments

\* process_query has returned and is called once more with the same query;
\* what it returned, and what its collaborators answered, is kept for
\* comparison. The locals of the first call are gone: the model leaves their
\* variables as they are, since every call assigns them before it reads them
CallAgain ==
  /\ pc = "done"
  /\ ~previous.present
  /\ previous' = [present |-> TRUE, analysis |-> analysis, llm_path |-> llm_path,
                  stock_data |-> stock_data, bitcoin_data |-> bitcoin_data,
                  scraped_data |-> scraped_data]
  /\ calls' = << >>
  /\ pc' = "start"
  /\ UNCHANGED << api_key, query, chat_history, response, scrape_env, reply, llm_path,
                  analysis, stock_data, bitcoin_data, scraped_data, scraped_results,
                  pending, ticker_found >>

NextTwice == Next \/ CallAgain

SpecTwice == InitTwice /\ [][NextTwice]_vars

----------------------------------------------------------------------------
(* The resolver and the fallback classifier applied to bounded inputs *)

InitFallback ==
  /\ query \in Texts(Fragments, MaxWords)
  /\ api_key = FALSE
  /\ pc = "text"
  /\ analysis = NoAnalysis
  /\ ticker_found = NoTicker
  /\ reply = NoReply
  /\ chat_history = << >>
  /\ response = NoResponse
  /\ previous = NoPrevious
  /\ scrape_env = NoEnv
  /\ Idle

\* a call of find_ticker_from_text(query)
Resolve ==
  /\ pc = "text"
  /\ ticker_found' = find_ticker_from_text(query)
  /\ pc' = "resolved"
  /\ UNCHANGED << api_key, query, chat_history, response, previous, scrape_env, reply,
                  llm_path, analysis, stock_data, bitcoin_data, scraped_data,
                  scraped_results, pending, calls >>

\* a call of _fallback_query_analysis(query)
Classify ==
  /\ pc = "text"
  /\ analysis' = _fallback_query_analysis(query)
  /\ pc' = "classified"
  /\ UNCHANGED << api_key, query, chat_history, response, previous, scrape_env, reply,
                  llm_path, ticker_found, stock_data, bitcoin_data, scraped_data,
                  scraped_results, pending, calls >>

NextFallback == Resolve \/ Classify

SpecFallback == InitFallback /\ [][NextFallback]_vars

----------------------------------------------------------------------------
(* scrape_url applied to bounded inputs *)

InitScrape ==
  /\ query \in Texts(QueryFragments, MaxQueryWords)
  /\ api_key \in BOOLEAN
  /\ scrape_env \in ScrapeEnvs
  /\ pc = "url"
  /\ analysis = NoAnalysis
  /\ ticker_found = NoTicker
  /\ reply = NoReply
  /\ chat_history = << >>
  /\ response = NoResponse
  /\ previous = NoPrevious
  /\ llm_path = "unset"
  /\ stock_data = "none"
  /\ bitcoin_data = "none"
  /\ scraped_data = NoScrape
  /\ scraped_results = << >>
  /\ pending \in {<< url >> : url \in LLMUrls}
  /\ calls = << >>

\* a call of scrape_url(url, query) that meets scrape_env
Scrape ==
  /\ pc = "url"
  /\ scraped_results' = << scrape_url(Head(pending), Str(query), api_key, scrape_env) >>
  /\ calls' = Append(calls, Call("scrape_url", Head(pending), Str(query)))
  /\ pending' = Tail(pending)
  /\ pc' = "scraped"
  /\ UNCHANGED << api_key, query, chat_history, response, previous, scrape_env, reply,
                  llm_path, analysis, stock_data, bitcoin_data, scraped_data,
                  ticker_found >>

NextScrape == Scrape

SpecScrape == InitScrape /\ [][NextScrape]_vars

----------------------------------------------------------------------------
(* Properties of the classifier and the router (specification Spec) *)

\* the classifier has returned
Classified == pc \in {"route", "scrape", "done", "raised"}

\* C1: process_query returns a result for every query and every behaviour of
\* the language model, also a response that parses as JSON but is no object
\* or has a 'urls' value that is no list: it never raises to its caller.
C1_NeverRaises == pc # "raised"

\* an intent of the fixed set, with an actionable parameter unless unknown:
\* a ticker, the bitcoin asset, or a non-empty URL list
ValidIntent(a) ==
  /\ a.kind = "dict"
  /\ a.intent \in {Str(i) : i \in IntentTags}
  /\ a.intent # Str(<< "unknown" >>) =>
       \/ a.ticker.t = "str" /\ a.ticker.s # << >>
       \/ a.intent = Str(<< "bitcoin_price" >>)
       \/ a.company_name = Str(Bitcoin)
       \/ a.urls.t = "list" /\ a.urls.l # << >>

\* C2: the record analyze_query_with_gemini returns is a valid Intent for every
\* query and every language-model response: its intent is one of the five
\* tags and every intent but unknown carries a non-empty actionable parameter.
C2_ValidIntent == Classified => ValidIntent(analysis)

\* C3: whenever the language-model path is unusable (no credential, the call
\* raises, or the stripped response is no parseable JSON) the classifier
\* returns exactly what _fallback_query_analysis returns for the query, and
\* nothing is raised to the caller.
C3_FallbackOnFailure ==
  (Classified /\ llm_path \in {"no_key", "raised", "unparseable"}) =>
    /\ analysis = _fallback_query_analysis(query)
    /\ pc # "raised"

\* the language model answered with text that is no JSON, and the rule-based
\* result (a combined intent) was routed to the end
C3_Witness ==
  /\ pc = "done"
  /\ llm_path = "unparseable"
  /\ analysis.intent = Str(<< "both" >>)
  /\ analysis.search_query = Str(query)

\* the rule-based path classified the query as combined with the crypto
\* branch populated
FallbackCryptoCombined ==
  /\ llm_path \in {"no_key", "raised", "unparseable"}
  /\ analysis.intent = Str(<< "both" >>)
  /\ analysis.company_name = Str(Bitcoin)

\* C4: for every query the deterministic fallback classifies as combined with
\* the crypto branch populated (a crypto keyword and a URL), process_query
\* calls the crypto fetch exactly once, before any scraping, and stores its
\* result in the crypto slot.
C4_CryptoBranchFetched ==
  (pc \in {"scrape", "done"} /\ FallbackCryptoCombined) =>
    /\ Len(CallsOf("fetch_bitcoin_price")) = 1
    /\ calls[1].fn = "fetch_bitcoin_price"
    /\ bitcoin_data \in FetchOutcomes

\* the URL list of a web_scrape or combined intent
ScrapeIntent ==
  /\ analysis.kind = "dict"
  /\ analysis.intent \in {Str(<< "web_scrape" >>), Str(<< "both" >>)}
  /\ analysis.urls.t = "list"
  /\ analysis.urls.l # << >>

\* C5: for a web_scrape or combined intent with URL list u1..un (n >= 1)
\* scrape_url is called once per URL, in input order; entry i of the result
\* list is the outcome for URL i, an error outcome included, and the loop
\* goes on to URL i+1 after a failure on URL i: it ends only with n entries.
C5_OnePerUrlInOrder ==
  (ScrapeIntent /\ pc \in {"scrape", "done"}) =>
    LET urls == analysis.urls.l
        n == Len(urls)
        k == Len(scraped_results)
        made == CallsOf("scrape_url")
    IN /\ k <= n
       /\ Len(made) = k
       /\ \A i \in 1..k :
            /\ made[i].url = urls[i]
            /\ scraped_results[i].url \in {Str(urls[i]), Absent}
            /\ scraped_results[i].url = Absent <=> ~api_key
       /\ pending = SubSeq(urls, k + 1, n)
       /\ pc = "scrape" => k < n /\ scraped_data = NoScrape
       /\ pc = "done" => k = n /\ scraped_data = [present |-> TRUE, items |-> scraped_results]

\* two different URLs were scraped, the first failed and the second succeeded
C5_Witness ==
  /\ pc = "done"
  /\ ScrapeIntent
  /\ Len(scraped_data.items) = 2
  /\ analysis.urls.l[1] # analysis.urls.l[2]
  /\ scraped_data.items[1].kind = "error"
  /\ scraped_data.items[2].kind = "relevant"

\* C6: dispatch on a single-target intent calls only the matching
\* collaborator: stock_price, the quote fetch exactly once, stored in the
\* quote slot; bitcoin_price, the crypto fetch exactly once, stored in the
\* crypto slot; unknown, no call and all three slots empty.
C6_SingleTargetDispatch ==
  (pc = "done" /\ analysis.kind = "dict") =>
    /\ analysis.intent = Str(<< "stock_price" >>) =>
         /\ Len(calls) = 1 /\ calls[1].fn = "fetch_stock_price"
         /\ stock_data \in FetchOutcomes
         /\ bitcoin_data = "none" /\ scraped_data = NoScrape
    /\ analysis.intent = Str(<< "bitcoin_price" >>) =>
         /\ Len(calls) = 1 /\ calls[1].fn = "fetch_bitcoin_price"
         /\ bitcoin_data \in FetchOutcomes
         /\ stock_data = "none" /\ scraped_data = NoScrape
    /\ analysis.intent = Str(<< "unknown" >>) =>
         /\ calls = << >>
         /\ stock_data = "none" /\ bitcoin_data = "none" /\ scraped_data = NoScrape

----------------------------------------------------------------------------
(* Properties of the resolver and the fallback classifier (specification
   SpecFallback) *)

\* the lookup keys that occur in the lower-cased text
ContainedKeys(t) ==
  LET low == Lower(t)
  IN {i \in 1..Len(COMPANY_LOOKUP) : Contains(COMPANY_LOOKUP[i][1], low)}

\* the longest of them, the first in table order among keys of equal length
LongestKey(t) ==
  LET keys == ContainedKeys(t)
  IN CHOOSE i \in keys :
       \A j \in keys :
         \/ Len(COMPANY_LOOKUP[j][1]) < Len(COMPANY_LOOKUP[i][1])
         \/ Len(COMPANY_LOOKUP[j][1]) = Len(COMPANY_LOOKUP[i][1]) /\ i <= j

RECURSIVE Runs(_, _, _)
\* the maximal runs of characters of t that satisfy In, from position i on,
\* cur being the run under way
Runs(t, In(_), cur) ==
  IF t = << >> THEN IF cur = << >> THEN << >> ELSE << cur >>
  ELSE IF In(Head(t)) THEN Runs(Tail(t), In, Append(cur, Head(t)))
  ELSE IF cur = << >> THEN Runs(Tail(t), In, << >>)
  ELSE << cur >> \o Runs(Tail(t), In, << >>)

\* the whitespace-separated words of t
SpaceWords(t) == Runs(t, LAMBDA c : c # " ", << >>)

\* the words that are URLs: http:// or https:// and at least one more character
IsUrlWord(w) ==
  \/ MatchAt(<< "h", "t", "t", "p", ":", "/", "/" >>, w, 1) /\ Len(w) > 7
  \/ MatchAt(<< "h", "t", "t", "p", "s", ":", "/", "/" >>, w, 1) /\ Len(w) > 8

UrlWords(t) == SelectSeq(SpaceWords(t), IsUrlWord)

\* the runs of letters, digits and _ that are 2 to 5 capitals and no stop word
TickerWords(t) ==
  SelectSeq(Runs(t, LAMBDA c : c \in WordChars, << >>),
            LAMBDA w : /\ Len(w) \in 2..5
                       /\ \A i \in 1..Len(w) : IsUpper(w[i])
                       /\ w \notin common_words)

\* the ticker the text names: that of the longest company name in it, else
\* the first ticker-shaped word
NamedTicker(t) ==
  LET keys == ContainedKeys(t)
      longest == CHOOSE i \in keys :
                   \A j \in keys :
                     \/ Len(COMPANY_LOOKUP[j][1]) < Len(COMPANY_LOOKUP[i][1])
                     \/ Len(COMPANY_LOOKUP[j][1]) = Len(COMPANY_LOOKUP[i][1]) /\ i <= j
  IN IF keys # {} THEN COMPANY_LOOKUP[longest][2] ELSE TickerWords(t)[1]

\* C7 as stated: every query with a company name of the lookup table and no
\* URL is classified stock_price with the ticker of a company name in it.
C7_CompanyNameGivesStock ==
  (pc = "classified" /\ ContainedKeys(query) # {} /\ UrlWords(query) = << >>) =>
    /\ analysis.intent = Str(<< "stock_price" >>)
    /\ analysis.ticker \in {Str(COMPANY_LOOKUP[i][2]) : i \in ContainedKeys(query)}

\* C7 (amended): every query with a company name of the lookup table, no URL
\* and none of the crypto keywords is classified stock_price with the ticker
\* of the longest company name in it (the first in table order among names
\* of equal length), an empty URL list and no search phrase.
C7_CompanyNameGivesStockNoCrypto ==
  (/\ pc = "classified"
   /\ ContainedKeys(query) # {}
   /\ UrlWords(query) = << >>
   /\ ~HasCryptoKeyword(query)) =>
    analysis = Dict(Str(<< "stock_price" >>), Str(COMPANY_LOOKUP[LongestKey(query)][2]),
                    None, List(<< >>), None)

\* a query naming two companies and a ticker-shaped word is classified by its
\* longest company name
C7_Witness ==
  /\ pc = "classified"
  /\ Cardinality(ContainedKeys(query)) >= 2
  /\ TickerWords(query) # << >>
  /\ UrlWords(query) = << >>
  /\ analysis.intent = Str(<< "stock_price" >>)
  /\ analysis.ticker = Str(<< "B", "A", "C" >>)

\* C8 as stated: every query with a company name or ticker and at least one
\* URL is classified both, with that ticker, the URLs in order of appearance
\* and the full query as search phrase.
C8_CompanyAndUrlGiveCombined ==
  (/\ pc = "classified"
   /\ ContainedKeys(query) # {} \/ TickerWords(query) # << >>
   /\ UrlWords(query) # << >>) =>
    analysis = Dict(Str(<< "both" >>), Str(NamedTicker(query)), None,
                    List(UrlWords(query)), Str(query))

\* C8 (amended): every query with a company name or ticker, at least one URL
\* and none of the crypto keywords is classified both, with the ticker the
\* text names, the URLs in order of appearance and the full query as search
\* phrase; with a crypto keyword it is classified both with the crypto target
\* and no ticker, the URLs and the search phrase being the same.
C8_CompanyAndUrlGiveCombinedNoCrypto ==
  pc = "classified" =>
    LET urls == UrlWords(query)
    IN (urls # << >> /\ (TickerWords(query) # << >> \/ ContainedKeys(query) # {})) =>
         analysis =
           IF HasCryptoKeyword(query)
           THEN Dict(Str(<< "both" >>), None, Str(Bitcoin), List(urls), Str(query))
           ELSE Dict(Str(<< "both" >>), Str(NamedTicker(query)), None, List(urls), Str(query))

\* a company name between two different URLs
C8_Witness ==
  /\ pc = "classified"
  /\ ContainedKeys(query) # {}
  /\ ~HasCryptoKeyword(query)
  /\ Len(UrlWords(query)) = 2
  /\ UrlWords(query)[1] # UrlWords(query)[2]
  /\ analysis.intent = Str(<< "both" >>)
  /\ analysis.urls = List(UrlWords(query))

\* C9: a text made only of stop-word-shaped capital tokens (THE, AND, CAN,
\* GET, ...) yields no ticker.
C9_StopWordsYieldNone ==
  (/\ pc = "resolved"
   /\ \A i \in 1..Len(SpaceWords(query)) : SpaceWords(query)[i] \in common_words) =>
    ticker_found = NoTicker

\* C10: the ticker returned for a text with company names is that of the
\* longest lookup key in the lower-cased text, never that of a shorter one;
\* so a text with "bank of america" and only shorter keys besides yields BAC.
C10_LongestMatchWins ==
  (pc = "resolved" /\ ContainedKeys(query) # {}) =>
    LET keys == ContainedKeys(query)
        longest == {i \in keys : \A j \in keys :
                      Len(COMPANY_LOOKUP[j][1]) <= Len(COMPANY_LOOKUP[i][1])}
        boa == << "b", "a", "n", "k", " ", "o", "f", " ", "a", "m", "e", "r", "i", "c", "a" >>
    IN /\ ticker_found \in {COMPANY_LOOKUP[i][2] : i \in longest}
       /\ (\E i \in longest : COMPANY_LOOKUP[i][1] = boa) => ticker_found = << "B", "A", "C" >>

\* "bank of america" after a shorter company name that comes first in the
\* table
C10_Witness ==
  /\ pc = "resolved"
  /\ \E i, j \in ContainedKeys(query) :
       /\ i < j
       /\ COMPANY_LOOKUP[j][1] = << "b", "a", "n", "k", " ", "o", "f", " ", "a", "m", "e", "r", "i", "c", "a" >>
       /\ Len(COMPANY_LOOKUP[i][1]) < Len(COMPANY_LOOKUP[j][1])
  /\ ticker_found = << "B", "A", "C" >>

----------------------------------------------------------------------------
(* Properties of the chat handler and the rendered response                *)
(* (specification Spec)                                                    *)

\* the three slots of the result are empty
SlotsEmpty == stock_data = "none" /\ bitcoin_data = "none" /\ ~scraped_data.present

\* the lines of a text that are no separator
Sections(text) == SelectSeq(text, LAMBDA l : l # Separator)

\* the guidance message: the four guidance lines, joined
GuidanceText ==
  << Line("guidance", "not_sure", Absent), Separator,
     Line("guidance", "stock_example", Absent), Separator,
     Line("guidance", "bitcoin_example", Absent), Separator,
     Line("guidance", "scrape_example", Absent) >>

SlotCount(slot) == IF slot = "none" THEN 0 ELSE 1

InProcessQuery == pc \in {"start", "parse", "route", "scrape", "raised"}

\* C12: the transcript is appended to only after process_query has returned
\* a result for the query: while the call runs, and when it does not
\* complete, the transcript holds no entry for the query; and once the
\* handler has ended every user entry is directly followed by its assistant
\* entry.
C12_TranscriptAfterResult ==
  /\ InProcessQuery => chat_history = << >>
  /\ pc \in {"input", "rendered", "raised"} =>
       \A i \in 1..Len(chat_history) :
         chat_history[i].role = "user" =>
           /\ i < Len(chat_history)
           /\ chat_history[i + 1].role = "assistant"

\* process_query has returned its result
Returned == pc \in {"done", "rendered"}

\* C14: without a credential the classification is the rule-based one and,
\* for a query with n URLs routed to scraping, each of the n scrape entries
\* is the 'API key not configured' error, returned before any page fetch (it
\* names no url); no entry is skipped and the language model is not asked;
\* the price slot of a combined query is fetched all the same.
C14_NoCredential ==
  (~api_key /\ Returned) =>
    /\ llm_path = "no_key"
    /\ analysis = _fallback_query_analysis(query)
    /\ analysis.intent \in {Str(<< "web_scrape" >>), Str(<< "both" >>)} =>
         /\ scraped_data.present
         /\ Len(scraped_data.items) = Len(analysis.urls.l)
         /\ \A i \in 1..Len(scraped_data.items) :
              scraped_data.items[i] = ScrapeResult("error", "api_key_not_configured", Absent)
         /\ analysis.intent = Str(<< "both" >>) =>
              \/ stock_data \in FetchOutcomes
              \/ bitcoin_data \in FetchOutcomes

\* C16: in every result of process_query, whichever path classified the
\* query, at most one of stock_data and bitcoin_data is populated; in the
\* combined branch a ticker takes priority: the quote is fetched once and the
\* crypto fetch is not called.
C16_AtMostOnePriceSlot ==
  /\ ~(stock_data # "none" /\ bitcoin_data # "none")
  /\ (/\ pc \in {"scrape", "done", "rendered"}
      /\ analysis.kind = "dict"
      /\ analysis.intent = Str(<< "both" >>)
      /\ Truthy(Get(analysis.ticker))) =>
       /\ CallsOf("fetch_bitcoin_price") = << >>
       /\ Len(CallsOf("fetch_stock_price")) = 1
       /\ calls[1] = Call("fetch_stock_price", << >>, analysis.ticker)
       /\ stock_data \in FetchOutcomes
       /\ bitcoin_data = "none"

\* a combined intent with a ticker for a query that mentions bitcoin: the
\* quote was fetched, the crypto price was not, and a URL was scraped
C16_Witness ==
  /\ pc = "done"
  /\ analysis.intent = Str(<< "both" >>)
  /\ Truthy(Get(analysis.ticker))
  /\ MentionsBitcoin(query)
  /\ stock_data = "ok"
  /\ scraped_data.present

\* C17: every call of scrape_url made by process_query gets a search phrase
\* that is not None: the record's search_query when that is a string, the
\* query text when search_query is missing or null; on the rule-based path it
\* is the whole query text for every URL.
C17_PhraseNeverNull ==
  (analysis.kind = "dict") =>
    \A i \in 1..Len(calls) :
      calls[i].fn = "scrape_url" =>
        /\ calls[i].arg.t = "str"
        /\ analysis.search_query.t = "str" => calls[i].arg = analysis.search_query
        /\ analysis.search_query \in {Absent, None} => calls[i].arg = Str(query)
        /\ llm_path # "parsed" => calls[i].arg = Str(query)

----------------------------------------------------------------------------
(* Properties of a repeated call (specification SpecTwice) *)

\* C15: a second call of process_query with the same query, classified to
\* the same intent record and answered by its collaborators as the first was,
\* returns the same content: the same intent record, quote slot, crypto slot
\* and scrape list. The first call leaves nothing behind that changes the
\* second, which in particular does not raise.
C15_SecondCallSameResult ==
  previous.present =>
    /\ pc # "raised"
    /\ Returned =>
         /\ analysis = previous.analysis
         /\ stock_data = previous.stock_data
         /\ bitcoin_data = previous.bitcoin_data
         /\ scraped_data = previous.scraped_data

\* a second call has returned a failed quote and two scrape entries
C15_Witness ==
  /\ previous.present
  /\ pc = "done"
  /\ llm_path = "parsed"
  /\ stock_data = "error"
  /\ Len(calls) = 3
  /\ Len(scraped_data.items) = 2

----------------------------------------------------------------------------
(* Properties of scrape_url (specification SpecScrape) *)

\* C13: scrape_url returns an error payload whenever the page fetch fails,
\* the extracted content is empty, or the language model's output is
\* malformed (no JSON, no object, or an object without 'relevant'); a
\* non-error result with relevant = false is returned only when the parsed
\* output says relevant = false.
C13_MalformedIsError ==
  pc = "scraped" =>
    LET r == scraped_results[1]
    IN /\ (\/ scrape_env.fetch \in {"fails", "empty"}
           \/ scrape_env.model \in {"not_json", "not_object", "no_relevant"}) =>
            r.kind = "error"
       /\ r.kind = "not_relevant" => scrape_env.model = "relevant_false"


====
